---- MODULE Spec2Model ----
(***************************************************************************)
(* Article Enrichment Pipeline of Project Sentinel.                        *)
(*                                                                         *)
(* The module models ProcessArticleView (dashboard/views.py): the request  *)
(* handler post, the pipeline process_article_pipeline it drives, the two  *)
(* service clients, the view's geocoder, and the NewsArticle /             *)
(* ProcessingLog rows (dashboard/models.py) they read and write.           *)
(*                                                                         *)
(* Text is a sequence of one-character strings, so that str.lower,         *)
(* str.strip and the substring operator `in` are computed as Python        *)
(* computes them.  Coordinates are degrees scaled by 10^4.                 *)
(*                                                                         *)
(* Spec follows one request; RerunSpec invokes the pipeline again on the   *)
(* stored article; ConcurrentSpec serves two requests at once.  The pure   *)
(* functions classify_article_priority and detect_language                 *)
(* (dashboard/utils.py) and merge_adjacent_entities (ner_service.py) are   *)
(* called on bounded inputs in PrioritySpec, DetectSpec and MergeSpec.     *)
(* Confidences are scaled by 10^4.                                         *)
(***************************************************************************)
EXTENDS Integers, Sequences, FiniteSets, TLC

\* ------------------------------------------------------------------------
\* Python string primitives
\* ------------------------------------------------------------------------

\* str.lower on one character.
LowerCase == ("É" :> "é") @@ [A |-> "a", B |-> "b", C |-> "c", D |-> "d", E |-> "e", F |-> "f", G |-> "g", H |-> "h", I |-> "i", J |-> "j", K |-> "k", L |-> "l", M |-> "m", N |-> "n", O |-> "o", P |-> "p", Q |-> "q", R |-> "r", S |-> "s", T |-> "t", U |-> "u", V |-> "v", W |-> "w", X |-> "x", Y |-> "y", Z |-> "z"]

LowerChar(c) == IF c \in DOMAIN LowerCase THEN LowerCase[c] ELSE c

\* str.lower
Lower(s) == [i \in 1..Len(s) |-> LowerChar(s[i])]

\* str.strip: drop leading and trailing whitespace.
Strip(s) ==
  LET keep == {i \in 1..Len(s) : s[i] # " "}
      lo == CHOOSE i \in keep : \A j \in keep : i <= j
      hi == CHOOSE i \in keep : \A j \in keep : j <= i
  IN IF keep = {} THEN <<>> ELSE SubSeq(s, lo, hi)

\* Python's `sub in s` on strings.
Contains(s, sub) ==
  \E i \in 0..(Len(s) - Len(sub)) : \A j \in 1..Len(sub) : s[i + j] = sub[j]

\* sum(1 for word in words if word in text)
CountPresent(words, text) ==
  Cardinality({i \in 1..Len(words) : Contains(text, words[i])})

\* ------------------------------------------------------------------------
\* ProcessArticleView.detect_article_language
\* ------------------------------------------------------------------------

french_indicators ==
  << <<"l","e">>,
     <<"l","a">>,
     <<"l","e","s">>,
     <<"d","e">>,
     <<"d","u">>,
     <<"d","e","s">>,
     <<"e","t">>,
     <<"d","a","n","s">>,
     <<"p","o","u","r">>,
     <<"a","v","e","c">> >>

english_indicators ==
  << <<"t","h","e">>,
     <<"a","n","d">>,
     <<"t","o">>,
     <<"o","f">>,
     <<"i","n">>,
     <<"f","o","r">>,
     <<"w","i","t","h">>,
     <<"o","n">>,
     <<"i","s">>,
     <<"a","r","e">> >>

detect_article_language(text) ==
  LET text_lower == Lower(text)
      french_count == CountPresent(french_indicators, text_lower)
      english_count == CountPresent(english_indicators, text_lower)
  IN IF french_count > english_count THEN "fr"
     ELSE IF english_count > french_count THEN "en"
     ELSE "auto"

\* ------------------------------------------------------------------------
\* Geocoding: the view's own table and the gazetteer of dashboard/utils.py
\* ------------------------------------------------------------------------

\* None for a coordinate, a service result or an exception is <<>>; a value
\* v that is present is <<v>> (a coordinate is the pair <<lat, lon>>).
None == <<>>

cameroon_locations ==
  << [key |-> <<"y","a","o","u","n","d","é">>, coords |-> <<38480, 115021>>],
     [key |-> <<"y","a","o","u","n","d","e">>, coords |-> <<38480, 115021>>],
     [key |-> <<"d","o","u","a","l","a">>, coords |-> <<40511, 97679>>],
     [key |-> <<"b","a","m","e","n","d","a">>, coords |-> <<59631, 101591>>],
     [key |-> <<"b","a","f","o","u","s","s","a","m">>, coords |-> <<54781, 104167>>],
     [key |-> <<"g","a","r","o","u","a">>, coords |-> <<93265, 133971>>],
     [key |-> <<"m","a","r","o","u","a">>, coords |-> <<105969, 143197>>],
     [key |-> <<"n","g","a","o","u","n","d","é","r","é">>, coords |-> <<73167, 135833>>],
     [key |-> <<"b","e","r","t","o","u","a">>, coords |-> <<45777, 136836>>],
     [key |-> <<"b","u","e","a">>, coords |-> <<41559, 92928>>],
     [key |-> <<"c","a","m","e","r","o","o","n">>, coords |-> <<38480, 115021>>] >>

location_database ==
  << [key |-> <<"y","a","o","u","n","d","é">>, coords |-> <<38480, 115021>>],
     [key |-> <<"y","a","o","u","n","d","e">>, coords |-> <<38480, 115021>>],
     [key |-> <<"d","o","u","a","l","a">>, coords |-> <<40511, 97679>>],
     [key |-> <<"b","a","m","e","n","d","a">>, coords |-> <<59631, 101591>>],
     [key |-> <<"b","a","f","o","u","s","s","a","m">>, coords |-> <<54781, 104167>>],
     [key |-> <<"g","a","r","o","u","a">>, coords |-> <<93265, 133971>>],
     [key |-> <<"m","a","r","o","u","a">>, coords |-> <<105969, 143197>>],
     [key |-> <<"n","g","a","o","u","n","d","é","r","é">>, coords |-> <<73167, 135833>>],
     [key |-> <<"n","g","a","o","u","n","d","e","r","e">>, coords |-> <<73167, 135833>>],
     [key |-> <<"b","e","r","t","o","u","a">>, coords |-> <<45777, 136836>>],
     [key |-> <<"b","u","e","a">>, coords |-> <<41559, 92928>>],
     [key |-> <<"l","i","m","b","e">>, coords |-> <<40186, 92105>>],
     [key |-> <<"k","u","m","b","a">>, coords |-> <<46371, 94469>>],
     [key |-> <<"e","d","e","a">>, coords |-> <<37969, 101350>>],
     [key |-> <<"l","o","u","m">>, coords |-> <<47181, 97336>>],
     [key |-> <<"n","k","o","n","g","s","a","m","b","a">>, coords |-> <<49547, 99386>>],
     [key |-> <<"f","o","u","m","b","a","n">>, coords |-> <<57269, 109004>>],
     [key |-> <<"t","i","k","o">>, coords |-> <<40719, 93606>>],
     [key |-> <<"k","r","i","b","i">>, coords |-> <<29394, 99078>>],
     [key |-> <<"s","a","n","g","m","e","l","i","m","a">>, coords |-> <<29294, 119981>>],
     [key |-> <<"e","b","o","l","o","w","a">>, coords |-> <<29156, 111544>>],
     [key |-> <<"m","b","a","l","m","a","y","o">>, coords |-> <<35186, 115036>>],
     [key |-> <<"a","k","o","n","o","l","i","n","g","a">>, coords |-> <<37731, 122506>>],
     [key |-> <<"a","d","a","m","a","w","a">>, coords |-> <<73167, 135833>>],
     [key |-> <<"c","e","n","t","r","e">>, coords |-> <<38480, 115021>>],
     [key |-> <<"e","a","s","t">>, coords |-> <<45777, 136836>>],
     [key |-> <<"f","a","r"," ","n","o","r","t","h">>, coords |-> <<105969, 143197>>],
     [key |-> <<"l","i","t","t","o","r","a","l">>, coords |-> <<40511, 97679>>],
     [key |-> <<"n","o","r","t","h">>, coords |-> <<93265, 133971>>],
     [key |-> <<"n","o","r","t","h","w","e","s","t">>, coords |-> <<59631, 101591>>],
     [key |-> <<"n","o","r","t","h","-","w","e","s","t">>, coords |-> <<59631, 101591>>],
     [key |-> <<"s","o","u","t","h">>, coords |-> <<29156, 111544>>],
     [key |-> <<"s","o","u","t","h","w","e","s","t">>, coords |-> <<41559, 92928>>],
     [key |-> <<"s","o","u","t","h","-","w","e","s","t">>, coords |-> <<41559, 92928>>],
     [key |-> <<"w","e","s","t">>, coords |-> <<54781, 104167>>],
     [key |-> <<"e","x","t","r","ê","m","e","-","n","o","r","d">>, coords |-> <<105969, 143197>>],
     [key |-> <<"n","o","r","d","-","o","u","e","s","t">>, coords |-> <<59631, 101591>>],
     [key |-> <<"s","u","d","-","o","u","e","s","t">>, coords |-> <<41559, 92928>>],
     [key |-> <<"c","a","m","e","r","o","o","n">>, coords |-> <<38480, 115021>>],
     [key |-> <<"c","a","m","e","r","o","u","n">>, coords |-> <<38480, 115021>>],
     [key |-> <<"n","i","g","e","r","i","a">>, coords |-> <<90820, 86753>>],
     [key |-> <<"c","h","a","d">>, coords |-> <<154542, 187322>>],
     [key |-> <<"t","c","h","a","d">>, coords |-> <<154542, 187322>>],
     [key |-> <<"c","e","n","t","r","a","l"," ","a","f","r","i","c","a","n"," ","r","e","p","u","b","l","i","c">>, coords |-> <<66111, 209394>>],
     [key |-> <<"e","q","u","a","t","o","r","i","a","l"," ","g","u","i","n","e","a">>, coords |-> <<16508, 102679>>],
     [key |-> <<"g","a","b","o","n">>, coords |-> <<-8037, 116094>>] >>

\* dict.get(key): the coordinate of the entry whose key equals `key`, or None.
Lookup(table, key) ==
  LET hit == {i \in 1..Len(table) : table[i].key = key}
  IN IF hit = {} THEN None ELSE table[CHOOSE i \in hit : TRUE].coords

\* Mutant: a name that is not in the table resolves to the capital.
view_geocode_location_defaults_to_capital(location_name) ==
  IF Lookup(cameroon_locations, Strip(Lower(location_name))) # None
  THEN Lookup(cameroon_locations, Strip(Lower(location_name)))
  ELSE cameroon_locations[1].coords

\* ProcessArticleView.geocode_location: exact match on the lower-cased,
\* stripped name in the view's eleven-entry table.
view_geocode_location(location_name) ==
  Lookup(cameroon_locations, Strip(Lower(location_name)))

\* Mutant: among the keys that match partially the last one wins.
geocode_location_last_match_wins(location_name) ==
  LET location_key == Strip(Lower(location_name))
      direct == Lookup(location_database, location_key)
      partial == {i \in 1..Len(location_database) :
                    \/ Contains(location_key, location_database[i].key)
                    \/ Contains(location_database[i].key, location_key)}
      last == CHOOSE i \in partial : \A j \in partial : i >= j
  IN IF direct # None THEN direct
     ELSE IF partial # {} THEN location_database[last].coords
     ELSE None

\* utils.geocode_location: exact match, then the first key, in table order,
\* that contains the name or is contained in it, else None.
geocode_location(location_name) ==
  LET location_key == Strip(Lower(location_name))
      direct == Lookup(location_database, location_key)
      partial == {i \in 1..Len(location_database) :
                    \/ Contains(location_key, location_database[i].key)
                    \/ Contains(location_database[i].key, location_key)}
      first == CHOOSE i \in partial : \A j \in partial : i <= j
  IN IF direct # None THEN direct
     ELSE IF partial # {} THEN location_database[first].coords
     ELSE None

\* ------------------------------------------------------------------------
\* Inputs: request payloads and service responses
\* ------------------------------------------------------------------------

\* Largest number of entities in one extraction response.
MaxEntities == 2

Articles == {"a1", "a2"}

\* "Le chef de Limbe", "The bomb", "un sac": detected fr, en and auto.
TextFr == <<"L","e"," ","c","h","e","f"," ","d","e"," ","L","i","m","b","e">>

TextEn == <<"T","h","e"," ","b","o","m","b">>

TextAuto == <<"u","n"," ","s","a","c">>

\* "The chief of Limbe"
TextTranslated ==
  <<"T","h","e"," ","c","h","i","e","f"," ","o","f"," ","L","i","m","b","e">>

RawTexts == {TextFr, TextEn, TextAuto}

\* raw_text of a request: a text, or blank (rejected by the serializer).
RequestTexts == RawTexts \cup {<<>>}

\* 200 responses of POST /translate (TranslationResponse).
TranslationResponses ==
  {[translated_text |-> TextTranslated, detected_language |-> "fr",
    processing_time |-> 123]}

\* EntityItem values: "Paul Biya", "Yaoundé" (in both geocoding tables),
\* "Limbe" (in the gazetteer of utils.py only), "Atlantis" (in neither).
EntityItems ==
  {[word |-> <<"P","a","u","l"," ","B","i","y","a">>, entity_group |-> "PERSON",
    confidence |-> 9998, start |-> 10, end |-> 19],
   [word |-> <<"Y","a","o","u","n","d","é">>, entity_group |-> "LOCATION",
    confidence |-> 9995, start |-> 23, end |-> 30],
   [word |-> <<"L","i","m","b","e">>, entity_group |-> "LOCATION",
    confidence |-> 9990, start |-> 40, end |-> 45],
   [word |-> <<"A","t","l","a","n","t","i","s">>, entity_group |-> "LOCATION",
    confidence |-> 9000, start |-> 50, end |-> 58]}

\* Entity lists of at most MaxEntities distinct items, in any order.
EntityLists ==
  {es \in UNION {[1..k -> EntityItems] : k \in 0..MaxEntities} :
     \A i, j \in 1..Len(es) : i # j => es[i] # es[j]}

\* 200 responses of POST /analyze-entities (NERResponse).
NerResponses ==
  {[entities |-> es, entity_count |-> Len(es), processing_time |-> 45] :
     es \in EntityLists}

\* The requests and responses of the runs that process a stored article
\* again: a French and an English text; extractions that find nothing,
\* "Yaoundé", "Douala" (both in the view's table), or "Atlantis" followed
\* by "Yaoundé".
SmallTexts == {TextFr, TextEn}

EntityNamed(word) == CHOOSE e \in EntityItems : e.word = word

Douala ==
  [word |-> <<"D","o","u","a","l","a">>, entity_group |-> "LOCATION",
   confidence |-> 9993, start |-> 60, end |-> 66]

SmallEntityLists ==
  {<<>>,
   <<EntityNamed(<<"Y","a","o","u","n","d","é">>)>>,
   <<Douala>>,
   <<EntityNamed(<<"A","t","l","a","n","t","i","s">>),
     EntityNamed(<<"Y","a","o","u","n","d","é">>)>>}

SmallNerResponses ==
  {[entities |-> es, entity_count |-> Len(es), processing_time |-> 45] :
     es \in SmallEntityLists}

\* Two requests side by side: a French article and an English one; each
\* extraction that answers finds "Yaoundé".
ConcurrentTexts == [a1 |-> TextFr, a2 |-> TextEn]

ConcurrentNerResponses ==
  {r \in SmallNerResponses :
     r.entities = <<EntityNamed(<<"Y","a","o","u","n","d","é">>)>>}

\* ------------------------------------------------------------------------
\* NewsArticle rows and instances (dashboard/models.py)
\* ------------------------------------------------------------------------

\* processed_json / results: the keys the pipeline uses; a key that is not
\* in the dict is None.
EmptyResults == [translation |-> None, entities |-> None, error |-> None]

Keys(d) == {k \in DOMAIN d : d[k] # None}

\* Python truthiness of a dict.
Truthy(d) == Keys(d) # {}

\* A NewsArticle created by NewsArticleCreateSerializer: the model defaults.
NewArticle(raw_text) ==
  [raw_text |-> raw_text, processing_status |-> "pending",
   language |-> "unknown", location |-> None, entity_count |-> 0,
   processed_json |-> EmptyResults, priority |-> 3]

\* Model.save(): every field of the instance is written to its row.
save(row, o) == o

\* Model.save(update_fields=fields): only `fields` are written.
save_update_fields(row, o, fields) ==
  [raw_text |->
     IF "raw_text" \in fields THEN o.raw_text ELSE row.raw_text,
   processing_status |->
     IF "processing_status" \in fields THEN o.processing_status
     ELSE row.processing_status,
   language |->
     IF "language" \in fields THEN o.language ELSE row.language,
   location |->
     IF "location" \in fields THEN o.location ELSE row.location,
   entity_count |->
     IF "entity_count" \in fields THEN o.entity_count ELSE row.entity_count,
   processed_json |->
     IF "processed_json" \in fields THEN o.processed_json
     ELSE row.processed_json,
   priority |->
     IF "priority" \in fields THEN o.priority ELSE row.priority]

\* NewsArticle.set_coordinates
set_coordinates(o, coordinates) == [o EXCEPT !.location = coordinates]

\* NewsArticle.mark_processing_failed, up to its save.
mark_processing_failed(o, error_message) ==
  LET failed == [o EXCEPT !.processing_status = "failed"]
  IN IF error_message # "" /\ Truthy(o.processed_json)
     THEN [failed EXCEPT !.processed_json.error = <<error_message>>]
     ELSE failed

\* The fields mark_processing_failed saves (updated_at is not modelled).
FailedUpdateFields == {"processing_status", "processed_json"}

\* ------------------------------------------------------------------------
\* Assignments of process_article_pipeline to the article instance
\* ------------------------------------------------------------------------

\* Mutant: the first step jumps straight to extracting_entities.
begin_translation_skips_stage(o, detected_lang) ==
  [o EXCEPT !.language = detected_lang,
            !.processing_status = "extracting_entities"]

\* article.language = detected_lang; article.processing_status = 'translating'
begin_translation(o, detected_lang) ==
  [o EXCEPT !.language = detected_lang, !.processing_status = "translating"]

\* Mutant: the extraction step is entered without a change of stage.
begin_extraction_keeps_stage(o) == o

\* article.processing_status = 'extracting_entities'
begin_extraction(o) == [o EXCEPT !.processing_status = "extracting_entities"]

\* Mutant: the final update stores the results but not the status.
store_results_keeps_status(o, results) == [o EXCEPT !.processed_json = results]

\* Mutant: a run in which no stage produced a result is marked failed.
store_results_fails_when_empty(o, results) ==
  [o EXCEPT !.processed_json = results,
            !.processing_status =
               IF Truthy(results) THEN "processed" ELSE "failed"]

\* Mutant: the final update also stores the number of entities of the run.
store_results_resets_entity_count(o, results) ==
  [o EXCEPT !.processed_json = results, !.processing_status = "processed",
            !.entity_count = IF results.entities = None
                             THEN 0
                             ELSE results.entities[1].entity_count]

\* article.processed_json = results; article.processing_status = 'processed'
store_results(o, results) ==
  [o EXCEPT !.processed_json = results, !.processing_status = "processed"]

\* Mutant: extraction always gets the raw text.
translated_text_ignored(translation_result, raw_text) == raw_text

\* translation_result.get('translated_text', article.raw_text)
translated_text_or(translation_result, raw_text) ==
  IF "translated_text" \in DOMAIN translation_result
  THEN translation_result.translated_text
  ELSE raw_text

\* Mutant: the stored result of a skipped translation has no text.
synthesized_translation_without_text(text_for_ner) ==
  [translated_text |-> <<>>, detected_language |-> "en", processing_time |-> 0]

\* The result stored for a text detected as English.
synthesized_translation(text_for_ner) ==
  [translated_text |-> text_for_ner, detected_language |-> "en",
   processing_time |-> 0]

\* Mutant: the run does not wait for the answer of the translation service.
after_translation_request_does_not_wait == "begin_ner"

\* Where control goes once the translation request is sent: the coroutine
\* is suspended at `await self.call_translation_service(...)`.
after_translation_request == "await_translation"

\* Mutant: a failed translation ends the run without extraction.
after_translation_failed_skips_ner == "finalize"

\* Mutant: a failed translation is tried again.
after_translation_failed_retries == "translate"

\* Where control goes after the else-branch that logs translation/failed:
\* it falls through to Step 3.
after_translation_failed == "begin_ner"

\* Mutant: after a failed extraction the step is announced once more.
after_ner_failed_announces_again == "log_ner_started"

\* Where control goes after the else-branch that logs ner_extraction/failed:
\* it falls through to the final update.
after_ner_failed == "finalize"

\* Mutant: the first LOCATION entity is geocoded whatever the article has.
needs_geocoding_ignores_location(o, location_entities) ==
  location_entities # <<>>

\* if location_entities and not article.location:
needs_geocoding(o, location_entities) ==
  location_entities # <<>> /\ o.location = None

\* [e for e in entities if e.get('entity_group') == 'LOCATION']
location_entities_of(entities) ==
  SelectSeq(entities, LAMBDA e : e.entity_group = "LOCATION")

\* ------------------------------------------------------------------------
\* State
\* ------------------------------------------------------------------------

VARIABLES
  requests,         \* the articles whose POST request arrives
  db,               \* news_articles table: article id -> None or <<row>>
  processing_logs,  \* processing_logs table, in insertion order
  article,          \* the NewsArticle instance held by each request
  local,            \* locals of process_article_pipeline, per request
  exc,              \* the exception raised in each request, if any
  pc,               \* position of each request in post / the pipeline
  calls,            \* requests sent to the two NLP services, in order
  response,         \* the HTTP response of each request
  workload,         \* which entry points and inputs this behaviour exercises
  reruns,           \* times the pipeline was invoked again on a stored article
  bench             \* a function under test: its input and what it returned

vars ==
  <<requests, db, processing_logs, article, local, exc, pc, calls, response,
    workload, reruns, bench>>

\* What the steps of a request leave alone.
harness == <<requests, workload, reruns, bench>>

InitLocal ==
  [detected_lang |-> "", text_for_ner |-> <<>>, translation_result |-> None,
   ner_result |-> None, results |-> EmptyResults, ret |-> None]

InitState ==
  /\ db = [a \in Articles |-> None]
  /\ processing_logs = <<>>
  /\ article = [a \in Articles |-> None]
  /\ local = [a \in Articles |-> InitLocal]
  /\ exc = [a \in Articles |-> None]
  /\ pc = [a \in Articles |-> "idle"]
  /\ calls = <<>>
  /\ response = [a \in Articles |-> None]
  /\ reruns = [a \in Articles |-> 0]

\* One request.
Init == requests = {"a1"} /\ workload = "request" /\ bench = None /\ InitState

\* The inputs a behaviour draws from: every request text and extraction
\* response when one request is followed, a smaller choice when a stored
\* article is processed again, one text per article when two requests run
\* side by side.
InputTexts(a) ==
  CASE workload = "request" -> RequestTexts
    [] workload = "rerun" -> SmallTexts
    [] OTHER -> {ConcurrentTexts[a]}

InputNerResponses ==
  CASE workload = "request" -> NerResponses
    [] workload = "rerun" -> SmallNerResponses
    [] OTHER -> ConcurrentNerResponses

Goto(a, label) == pc' = [pc EXCEPT ![a] = label]

\* An exception with message msg is raised and control passes to `handler`.
Raise(a, msg, handler) ==
  /\ exc' = [exc EXCEPT ![a] = <<msg>>]
  /\ Goto(a, handler)

\* Mutant: the save is not restricted to the row of the instance.
SaveOrRaise_every_row(a, o, label, handler) ==
  \/ /\ db' = [b \in Articles |-> IF db[b] # None THEN <<o>> ELSE db[b]]
     /\ Goto(a, label)
     /\ UNCHANGED exc
  \/ /\ Raise(a, "save failed", handler)
     /\ UNCHANGED db

\* article.save() with instance o: the row is written, or the save raises.
SaveOrRaise(a, o, label, handler) ==
  \/ /\ db' = [db EXCEPT ![a] = <<save(db[a][1], o)>>]
     /\ Goto(a, label)
     /\ UNCHANGED exc
  \/ /\ Raise(a, "save failed", handler)
     /\ UNCHANGED db

\* Mutant: the outcome of an operation overwrites the newest log row.
LogOrRaise_updates_in_place(a, operation, status, label) ==
  \/ /\ processing_logs' =
          IF status = "started" \/ processing_logs = <<>>
          THEN Append(processing_logs,
                      [article |-> a, operation |-> operation, status |-> status])
          ELSE [processing_logs EXCEPT ![Len(processing_logs)].operation = operation,
                                      ![Len(processing_logs)].status = status]
     /\ Goto(a, label)
     /\ UNCHANGED exc
  \/ /\ Raise(a, "log create failed", "except")
     /\ UNCHANGED processing_logs

\* ProcessingLog.objects.create(...): the row is inserted, or it raises.
LogOrRaise(a, operation, status, label) ==
  \/ /\ processing_logs' =
          Append(processing_logs,
                 [article |-> a, operation |-> operation, status |-> status])
     /\ Goto(a, label)
     /\ UNCHANGED exc
  \/ /\ Raise(a, "log create failed", "except")
     /\ UNCHANGED processing_logs

Respond(a, status, success) ==
  response' = [response EXCEPT ![a] = <<[status |-> status, success |-> success]>>]

\* ------------------------------------------------------------------------
\* ProcessArticleView.post, up to the call of the pipeline
\* ------------------------------------------------------------------------

Post(a) ==
  /\ a \in requests
  /\ pc[a] = "idle"
  /\ \E raw_text \in InputTexts(a) :
       \/ \* serializer.is_valid() is False
          /\ Strip(raw_text) = <<>>
          /\ Respond(a, 400, FALSE)
          /\ Goto(a, "done")
          /\ UNCHANGED <<db, article>>
       \/ \* the article is created with status pending
          /\ Strip(raw_text) # <<>>
          /\ article' = [article EXCEPT ![a] = <<NewArticle(raw_text)>>]
          /\ db' = [db EXCEPT ![a] = <<NewArticle(raw_text)>>]
          /\ Goto(a, "detect")
          /\ UNCHANGED response
       \/ \* the transaction raises and is rolled back: outer handler
          /\ Strip(raw_text) # <<>>
          /\ Respond(a, 500, FALSE)
          /\ Goto(a, "done")
          /\ UNCHANGED <<db, article>>
  /\ UNCHANGED <<harness, processing_logs, local, exc, calls>>

\* ------------------------------------------------------------------------
\* ProcessArticleView.process_article_pipeline
\* ------------------------------------------------------------------------

\* Step 1: detect the language, set status translating, save.
Detect(a) ==
  /\ pc[a] = "detect"
  /\ LET o == article[a][1]
         detected_lang == detect_article_language(o.raw_text)
         o2 == begin_translation(o, detected_lang)
     IN /\ local' = [local EXCEPT ![a].detected_lang = detected_lang]
        /\ article' = [article EXCEPT ![a] = <<o2>>]
        /\ SaveOrRaise(a, o2, "log_translation_started", "except")
  /\ UNCHANGED <<harness, processing_logs, calls, response>>

LogTranslationStarted(a) ==
  /\ pc[a] = "log_translation_started"
  /\ LogOrRaise(a, "translation", "started", "translate")
  /\ UNCHANGED <<harness, db, article, local, calls, response>>

\* Step 2: send the translation request unless the language is en.
Translate(a) ==
  /\ pc[a] = "translate"
  /\ LET raw_text == article[a][1].raw_text
         detected_lang == local[a].detected_lang
     IN \/ /\ detected_lang # "en"
           /\ local' = [local EXCEPT ![a].text_for_ner = raw_text]
           /\ \/ /\ calls' = Append(calls, [article |-> a,
                                            service |-> "translation",
                                            text |-> raw_text])
                 /\ Goto(a, after_translation_request)
                 /\ UNCHANGED exc
              \/ \* settings.NLP_SERVICES lookup raises before the request
                 /\ Raise(a, "'TRANSLATION_SERVICE'", "except")
                 /\ UNCHANGED calls
        \/ /\ detected_lang = "en"
           /\ local' = [local EXCEPT
                          ![a].text_for_ner = raw_text,
                          ![a].results.translation =
                             <<synthesized_translation(raw_text)>>]
           /\ Goto(a, "begin_ner")
           /\ UNCHANGED <<calls, exc>>
  /\ UNCHANGED <<harness, db, processing_logs, article, response>>

\* call_translation_service returns the 200 body, or None on a timeout, a
\* non-200 status or a connection error.
TranslationReturns(a) ==
  /\ pc[a] = "await_translation"
  /\ \E r \in {None} \cup {<<x>> : x \in TranslationResponses} :
       local' = [local EXCEPT ![a].translation_result = r]
  /\ Goto(a, "translation_result")
  /\ UNCHANGED <<harness, db, processing_logs, article, exc, calls, response>>

TranslationResult(a) ==
  /\ pc[a] = "translation_result"
  /\ LET translation_result == local[a].translation_result
     IN \/ /\ translation_result # None
           /\ local' = [local EXCEPT
                          ![a].results.translation = translation_result,
                          ![a].text_for_ner =
                             translated_text_or(translation_result[1],
                                                article[a][1].raw_text)]
           /\ LogOrRaise(a, "translation", "completed", "begin_ner")
        \/ /\ translation_result = None
           /\ UNCHANGED local
           /\ LogOrRaise(a, "translation", "failed", after_translation_failed)
  /\ UNCHANGED <<harness, db, article, calls, response>>

\* Step 3: set status extracting_entities, save.
BeginNer(a) ==
  /\ pc[a] = "begin_ner"
  /\ LET o2 == begin_extraction(article[a][1])
     IN /\ article' = [article EXCEPT ![a] = <<o2>>]
        /\ SaveOrRaise(a, o2, "log_ner_started", "except")
  /\ UNCHANGED <<harness, processing_logs, local, calls, response>>

LogNerStarted(a) ==
  /\ pc[a] = "log_ner_started"
  /\ LogOrRaise(a, "ner_extraction", "started", "call_ner")
  /\ UNCHANGED <<harness, db, article, local, calls, response>>

CallNer(a) ==
  /\ pc[a] = "call_ner"
  /\ \/ /\ calls' = Append(calls, [article |-> a, service |-> "ner",
                                   text |-> local[a].text_for_ner])
        /\ Goto(a, "await_ner")
        /\ UNCHANGED exc
     \/ \* settings.NLP_SERVICES lookup raises before the request
        /\ Raise(a, "'NER_SERVICE'", "except")
        /\ UNCHANGED calls
  /\ UNCHANGED <<harness, db, processing_logs, article, local, response>>

\* call_ner_service returns the 200 body, or None on failure.
NerReturns(a) ==
  /\ pc[a] = "await_ner"
  /\ \E r \in {None} \cup {<<x>> : x \in InputNerResponses} :
       local' = [local EXCEPT ![a].ner_result = r]
  /\ Goto(a, "ner_result")
  /\ UNCHANGED <<harness, db, processing_logs, article, exc, calls, response>>

NerResult(a) ==
  /\ pc[a] = "ner_result"
  /\ LET ner_result == local[a].ner_result
     IN \/ /\ ner_result # None
           /\ local' = [local EXCEPT ![a].results.entities = ner_result]
           /\ article' = [article EXCEPT
                            ![a][1].entity_count = ner_result[1].entity_count]
           /\ LogOrRaise(a, "ner_extraction", "completed", "geocode")
        \/ /\ ner_result = None
           /\ UNCHANGED <<local, article>>
           /\ LogOrRaise(a, "ner_extraction", "failed", after_ner_failed)
  /\ UNCHANGED <<harness, db, calls, response>>

\* Step 4: geocode the first LOCATION entity if the article has no location.
Geocode(a) ==
  /\ pc[a] = "geocode"
  /\ LET o == article[a][1]
         location_entities ==
           location_entities_of(local[a].ner_result[1].entities)
         first_location == location_entities[1].word
         coordinates == view_geocode_location(first_location)
     IN IF needs_geocoding(o, location_entities) /\ coordinates # None
        THEN /\ article' = [article EXCEPT
                              ![a] = <<set_coordinates(o, coordinates)>>]
             /\ LogOrRaise(a, "geocoding", "completed", "finalize")
        ELSE /\ Goto(a, "finalize")
             /\ UNCHANGED <<article, processing_logs, exc>>
  /\ UNCHANGED <<harness, db, local, calls, response>>

\* Store the results, set status processed, save, return results.
Finalize(a) ==
  /\ pc[a] = "finalize"
  /\ LET o2 == store_results(article[a][1], local[a].results)
     IN /\ article' = [article EXCEPT ![a] = <<o2>>]
        /\ \/ /\ db' = [db EXCEPT ![a] = <<save(db[a][1], o2)>>]
              /\ local' = [local EXCEPT ![a].ret = <<local[a].results>>]
              /\ Goto(a, "returned")
              /\ UNCHANGED exc
           \/ /\ Raise(a, "save failed", "except")
              /\ UNCHANGED <<db, local>>
  /\ UNCHANGED <<harness, processing_logs, calls, response>>

\* except Exception as e: article.mark_processing_failed(str(e)) and return
\* {'error': str(e)}; if the save inside raises, the exception leaves the
\* pipeline and reaches the handler of post.
Except(a) ==
  /\ pc[a] = "except"
  /\ LET e == exc[a][1]
         o2 == mark_processing_failed(article[a][1], e)
     IN /\ article' = [article EXCEPT ![a] = <<o2>>]
        /\ \/ /\ db' = [db EXCEPT ![a] =
                          <<save_update_fields(db[a][1], o2, FailedUpdateFields)>>]
              /\ local' = [local EXCEPT
                             ![a].ret = <<[EmptyResults EXCEPT !.error = <<e>>]>>]
              /\ Goto(a, "returned")
              /\ UNCHANGED exc
           \/ /\ Raise(a, "save failed", "post_except")
              /\ UNCHANGED <<db, local>>
  /\ UNCHANGED <<harness, processing_logs, calls, response>>

\* ------------------------------------------------------------------------
\* ProcessArticleView.post, after the pipeline
\* ------------------------------------------------------------------------

\* refresh_from_db, serialize, respond 201; either may raise.
PostRespond(a) ==
  /\ pc[a] = "returned"
  /\ reruns[a] = 0
  /\ \/ /\ article' = [article EXCEPT ![a] = db[a]]
        /\ Respond(a, 201, TRUE)
        /\ Goto(a, "done")
        /\ UNCHANGED exc
     \/ /\ Raise(a, "refresh failed", "post_except")
        /\ UNCHANGED <<article, response>>
     \/ /\ article' = [article EXCEPT ![a] = db[a]]
        /\ Raise(a, "serialization failed", "post_except")
        /\ UNCHANGED response
  /\ UNCHANGED <<harness, db, processing_logs, local, calls>>

\* The inner handler of post: mark_processing_failed and respond 202; if the
\* save inside raises, the outer handler responds 500.
PostExcept(a) ==
  /\ pc[a] = "post_except"
  /\ reruns[a] = 0
  /\ LET o2 == mark_processing_failed(article[a][1], exc[a][1])
     IN /\ article' = [article EXCEPT ![a] = <<o2>>]
        /\ \/ /\ db' = [db EXCEPT ![a] =
                          <<save_update_fields(db[a][1], o2, FailedUpdateFields)>>]
              /\ Respond(a, 202, FALSE)
           \/ /\ Respond(a, 500, FALSE)
              /\ UNCHANGED db
  /\ Goto(a, "done")
  /\ UNCHANGED <<harness, processing_logs, local, exc, calls>>

Next ==
  \E a \in Articles :
    \/ Post(a)
    \/ Detect(a)
    \/ LogTranslationStarted(a)
    \/ Translate(a)
    \/ TranslationReturns(a)
    \/ TranslationResult(a)
    \/ BeginNer(a)
    \/ LogNerStarted(a)
    \/ CallNer(a)
    \/ NerReturns(a)
    \/ NerResult(a)
    \/ Geocode(a)
    \/ Finalize(a)
    \/ Except(a)
    \/ PostRespond(a)
    \/ PostExcept(a)

Spec == Init /\ [][Next]_vars

\* The pipeline is straight-line code and every await has a timeout, so a
\* request that can take a step eventually takes one.
FairSpec == Spec /\ WF_vars(Next)

TypeOK ==
  /\ requests \subseteq Articles
  /\ \A a \in Articles :
       /\ pc[a] \in {"idle", "detect", "log_translation_started", "translate",
                     "await_translation", "translation_result", "begin_ner",
                     "log_ner_started", "call_ner", "await_ner", "ner_result",
                     "geocode", "finalize", "except", "returned",
                     "post_except", "done"}
       /\ db[a] # None =>
            db[a][1].processing_status \in
              {"pending", "translating", "extracting_entities", "processed",
               "failed"}

\* ------------------------------------------------------------------------
\* Observations used by the properties
\* ------------------------------------------------------------------------

PipelineLabels ==
  {"detect", "log_translation_started", "translate", "await_translation",
   "translation_result", "begin_ner", "log_ner_started", "call_ner",
   "await_ner", "ner_result", "geocode", "finalize", "except"}

\* The request is inside process_article_pipeline.
InPipeline(a) == pc[a] \in PipelineLabels

\* process_article_pipeline has just returned to post.
Returned(a) == pc[a] = "returned"

\* The persisted stage of a created article.
Stage(a) == db[a][1].processing_status

\* The log entries of one article, as <<operation, status>> pairs.
LogOf(a) ==
  LET mine == SelectSeq(processing_logs, LAMBDA e : e.article = a)
  IN [i \in 1..Len(mine) |-> <<mine[i].operation, mine[i].status>>]

CountLog(a, operation, status) ==
  Cardinality({i \in 1..Len(LogOf(a)) : LogOf(a)[i] = <<operation, status>>})

\* The texts sent to one service for one article, in order.
CallsOf(a, service) ==
  LET mine == SelectSeq(calls, LAMBDA c : c.article = a /\ c.service = service)
  IN [i \in 1..Len(mine) |-> mine[i].text]

\* ------------------------------------------------------------------------
\* Functions under test: what a call returns
\* ------------------------------------------------------------------------

\* The call returned v.
Value(v) == [raised |-> "", value |-> <<v>>]

\* The call raised an exception of class e.
Raised(e) == [raised |-> e, value |-> None]

\* No request arrives and nothing is stored while a function is under test.
BenchInit(fn, inputs) ==
  /\ requests = {}
  /\ workload = "bench"
  /\ InitState
  /\ bench \in {[fn |-> fn, input |-> x, output |-> None] : x \in inputs}

\* The function under test is called once on the input.
BenchCall(fn, result) ==
  /\ bench # None
  /\ bench.fn = fn
  /\ bench.output = None
  /\ bench' = [bench EXCEPT !.output = <<result>>]
  /\ UNCHANGED <<requests, db, processing_logs, article, local, exc, pc,
                 calls, response, workload, reruns>>

\* ------------------------------------------------------------------------
\* utils.classify_article_priority
\* ------------------------------------------------------------------------

critical_keywords ==
  << <<"a","t","t","a","c","k">>, <<"b","o","m","b">>,
     <<"e","x","p","l","o","s","i","o","n">>,
     <<"t","e","r","r","o","r","i","s","t">>,
     <<"b","o","k","o"," ","h","a","r","a","m">>,
     <<"a","m","b","u","s","h">>, <<"k","i","d","n","a","p">>,
     <<"h","o","s","t","a","g","e">>,
     <<"e","m","e","r","g","e","n","c","y">>, <<"c","r","i","s","i","s">> >>

high_priority_keywords ==
  << <<"m","i","l","i","t","a","r","y">>, <<"a","r","m","y">>,
     <<"s","e","c","u","r","i","t","y">>, <<"p","o","l","i","c","e">>,
     <<"o","p","e","r","a","t","i","o","n">>,
     <<"c","o","n","f","l","i","c","t">>,
     <<"v","i","o","l","e","n","c","e">>, <<"p","r","o","t","e","s","t">>,
     <<"s","t","r","i","k","e">>, <<"u","n","r","e","s","t">> >>

\* The builtin any() called with two positional arguments: it takes exactly
\* one, an iterable, so the call raises TypeError whatever the arguments.
any_of_two_arguments(x, y) == Raised("TypeError")

\* article_data is a dict; a text key that is missing reads as ''.
classify_article_priority(article_data) ==
  LET text_to_analyze ==
        IF article_data.translated_text # <<>>
        THEN article_data.translated_text
        ELSE article_data.raw_text
      text_lower == Lower(text_to_analyze)
      critical_count == CountPresent(critical_keywords, text_lower)
      high_count == CountPresent(high_priority_keywords, text_lower)
      entities == article_data.entities
      person_entities ==
        SelectSeq(entities, LAMBDA e : e.entity_group = "PERSON")
      org_entities ==
        SelectSeq(entities, LAMBDA e : e.entity_group = "ORGANIZATION")
      \* the right operand of `or` is evaluated only when the left is false
      phrase ==
        any_of_two_arguments(
          Contains(text_lower, <<"b","o","k","o"," ","h","a","r","a","m">>),
          Contains(text_lower, <<"t","e","r","r","o","r","i","s","t">>))
  IN IF critical_count >= 2 THEN Value(1)
     ELSE IF phrase.raised # "" THEN phrase
     ELSE IF phrase.value[1] THEN Value(1)
     ELSE IF critical_count >= 1 \/ high_count >= 3 THEN Value(2)
     ELSE IF \/ high_count >= 1
             \/ Len(person_entities) >= 3
             \/ Len(org_entities) >= 2 THEN Value(3)
     ELSE Value(4)

\* Largest numbers of PERSON and ORGANIZATION entities in an article_data.
MaxPersons == 4

MaxOrgs == 2

\* "bomb attack", "Bomb Attack", "terrorist", "boko haram", "bomb",
\* "army police strike", "protest", "hello"
PriorityTexts ==
  { <<"b","o","m","b"," ","a","t","t","a","c","k">>,
     <<"B","o","m","b"," ","A","t","t","a","c","k">>,
     <<"t","e","r","r","o","r","i","s","t">>,
     <<"b","o","k","o"," ","h","a","r","a","m">>, <<"b","o","m","b">>,
     <<"a","r","m","y"," ","p","o","l","i","c","e"," ","s","t","r","i","k","e">>,
     <<"p","r","o","t","e","s","t">>, <<"h","e","l","l","o">> }

\* p PERSON entities followed by o ORGANIZATION entities.
PriorityEntities(p, o) ==
  [i \in 1..(p + o) |->
     [word |-> <<"x">>,
      entity_group |-> IF i <= p THEN "PERSON" ELSE "ORGANIZATION",
      confidence |-> 9000, start |-> 10 * i, end |-> 10 * i + 5]]

\* article_data: with or without a translated text.
PriorityInputs ==
  {[translated_text |-> t, raw_text |-> r, entities |-> PriorityEntities(p, o)] :
     t \in {<<>>, <<"p","r","o","t","e","s","t">>}, r \in PriorityTexts,
     p \in 0..MaxPersons, o \in 0..MaxOrgs}

PriorityInit == BenchInit("classify_article_priority", PriorityInputs)

ClassifyPriority ==
  BenchCall("classify_article_priority", classify_article_priority(bench.input))

PrioritySpec == PriorityInit /\ [][ClassifyPriority]_vars

\* ------------------------------------------------------------------------
\* process_article_pipeline invoked again on a stored article
\* ------------------------------------------------------------------------

\* Largest number of times one article is processed again.
MaxReruns == 1

\* A caller other than post loads a processed or failed article and calls
\* process_article_pipeline on it: the run starts with fresh locals
\* (results = {}) and the instance as stored.
Rerun(a) ==
  /\ workload = "rerun"
  /\ pc[a] = "done"
  /\ db[a] # None
  /\ db[a][1].processing_status \in {"processed", "failed"}
  /\ reruns[a] < MaxReruns
  /\ reruns' = [reruns EXCEPT ![a] = @ + 1]
  /\ article' = [article EXCEPT ![a] = db[a]]
  /\ local' = [local EXCEPT ![a] = InitLocal]
  /\ exc' = [exc EXCEPT ![a] = None]
  /\ Goto(a, "detect")
  /\ UNCHANGED <<requests, workload, bench, db, processing_logs, calls,
                 response>>

\* The run returns, or its exception propagates, to that caller.
RerunEnds(a) ==
  /\ reruns[a] > 0
  /\ pc[a] \in {"returned", "post_except"}
  /\ Goto(a, "done")
  /\ UNCHANGED <<harness, db, processing_logs, article, local, exc, calls,
                 response>>

RerunInit == requests = {"a1"} /\ workload = "rerun" /\ bench = None /\ InitState

RerunNext ==
  \/ Next
  \/ \E a \in Articles : Rerun(a) \/ RerunEnds(a)

RerunSpec == RerunInit /\ [][RerunNext]_vars

\* ------------------------------------------------------------------------
\* Two requests for two different articles, served at the same time
\* ------------------------------------------------------------------------

ConcurrentInit ==
  requests = Articles /\ workload = "concurrent" /\ bench = None /\ InitState

\* The steps of the two requests interleave in any order.
ConcurrentSpec == ConcurrentInit /\ [][Next]_vars

\* process_article_pipeline run from start to end on a new article, alone
\* and without a fault: the row it leaves, the log entries it writes and the
\* text it sends to the extraction service, as functions of the raw text
\* and of what the two services answered.
SoloRun(raw_text, translation_result, ner_result) ==
  LET detected_lang == detect_article_language(raw_text)
      o1 == begin_translation(NewArticle(raw_text), detected_lang)
      translation ==
        IF detected_lang = "en" THEN <<synthesized_translation(raw_text)>>
        ELSE translation_result
      text_for_ner ==
        IF detected_lang # "en" /\ translation_result # None
        THEN translated_text_or(translation_result[1], raw_text)
        ELSE raw_text
      translation_log ==
        IF detected_lang = "en" THEN <<>>
        ELSE IF translation_result # None
        THEN << <<"translation", "completed">> >>
        ELSE << <<"translation", "failed">> >>
      o2 == begin_extraction(o1)
      o3 == IF ner_result # None
            THEN [o2 EXCEPT !.entity_count = ner_result[1].entity_count]
            ELSE o2
      location_entities ==
        IF ner_result # None
        THEN location_entities_of(ner_result[1].entities) ELSE <<>>
      coordinates ==
        IF location_entities # <<>>
        THEN view_geocode_location(location_entities[1].word) ELSE None
      o4 == IF coordinates # None THEN set_coordinates(o3, coordinates) ELSE o3
      ner_log ==
        IF ner_result = None THEN << <<"ner_extraction", "failed">> >>
        ELSE << <<"ner_extraction", "completed">> >>
             \o (IF coordinates # None
                 THEN << <<"geocoding", "completed">> >> ELSE <<>>)
      results ==
        [translation |-> translation, entities |-> ner_result, error |-> None]
  IN [row |-> store_results(o4, results),
      log |-> << <<"translation", "started">> >> \o translation_log
              \o << <<"ner_extraction", "started">> >> \o ner_log,
      text_for_ner |-> text_for_ner]

\* ------------------------------------------------------------------------
\* utils.detect_language
\* ------------------------------------------------------------------------

\* str.split(): the maximal runs of non-whitespace characters, in order.
Split(s) ==
  LET starts == {i \in 1..Len(s) : s[i] # " " /\ (i = 1 \/ s[i - 1] = " ")}
      ends == {i \in 1..Len(s) : s[i] # " " /\ (i = Len(s) \/ s[i + 1] = " ")}
      nth(S, n) == CHOOSE i \in S : Cardinality({k \in S : k <= i}) = n
  IN [n \in 1..Cardinality(starts) |-> SubSeq(s, nth(starts, n), nth(ends, n))]

\* The indicator lists of utils.detect_language, one tuple per category.
utils_french_indicators ==
  << \* articles
     << <<"l","e">>, <<"l","a">>, <<"l","e","s">>, <<"u","n">>,
        <<"u","n","e">>, <<"d","e","s">>, <<"d","u">>, <<"d","e">> >>,
     \* prepositions
     << <<"d","a","n","s">>, <<"p","o","u","r">>, <<"a","v","e","c">>,
        <<"s","u","r">>, <<"s","o","u","s">>, <<"p","a","r">>,
        <<"s","a","n","s">> >>,
     \* conjunctions
     << <<"e","t">>, <<"o","u">>, <<"m","a","i","s">>, <<"d","o","n","c">>,
        <<"c","a","r">>, <<"n","i">> >>,
     \* common_words
     << <<"e","s","t">>, <<"s","o","n","t">>, <<"a","v","o","i","r">>,
        <<"ê","t","r","e">>, <<"f","a","i","r","e">>,
        <<"a","l","l","e","r">>, <<"v","o","i","r">> >>,
     \* pronouns
     << <<"j","e">>, <<"t","u">>, <<"i","l">>, <<"e","l","l","e">>,
        <<"n","o","u","s">>, <<"v","o","u","s">>, <<"i","l","s">>,
        <<"e","l","l","e","s">> >> >>

utils_english_indicators ==
  << \* articles
     << <<"t","h","e">>, <<"a">>, <<"a","n">> >>,
     \* prepositions
     << <<"i","n">>, <<"o","n">>, <<"a","t">>, <<"f","o","r">>,
        <<"w","i","t","h">>, <<"b","y">>, <<"f","r","o","m">>, <<"t","o">>,
        <<"o","f">> >>,
     \* conjunctions
     << <<"a","n","d">>, <<"o","r">>, <<"b","u","t">>, <<"s","o">>,
        <<"y","e","t">>, <<"n","o","r">> >>,
     \* common_words
     << <<"i","s">>, <<"a","r","e">>, <<"h","a","v","e">>, <<"h","a","s">>,
        <<"w","i","l","l">>, <<"w","o","u","l","d">>,
        <<"c","o","u","l","d">>, <<"s","h","o","u","l","d">> >>,
     \* pronouns
     << <<"i">>, <<"y","o","u">>, <<"h","e">>, <<"s","h","e">>, <<"w","e">>,
        <<"t","h","e","y">>, <<"i","t">>, <<"t","h","i","s">>,
        <<"t","h","a","t">> >> >>

InList(word, indicators) == \E i \in 1..Len(indicators) : indicators[i] = word

\* score += sum(1 for word in words if word in indicators), per category
IndicatorScore(words, categories) ==
  LET hits(c) == Cardinality({i \in 1..Len(words) : InList(words[i], categories[c])})
      sum[c \in 0..Len(categories)] == IF c = 0 THEN 0 ELSE sum[c - 1] + hits(c)
  IN sum[Len(categories)]

\* Mutant: short texts are scored like any other.
detect_language_without_word_check(text) ==
  LET words == Split(Strip(Lower(text)))
      french_score == IndicatorScore(words, utils_french_indicators)
      english_score == IndicatorScore(words, utils_english_indicators)
  IN IF text = <<>> \/ Len(Strip(text)) < 10 THEN "auto"
     ELSE IF 2 * french_score > 3 * english_score THEN "fr"
     ELSE IF english_score > french_score THEN "en"
     ELSE "auto"

\* Mutant: French needs only more indicator words than English.
detect_language_without_bias(text) ==
  LET words == Split(Strip(Lower(text)))
      french_score == IndicatorScore(words, utils_french_indicators)
      english_score == IndicatorScore(words, utils_english_indicators)
  IN IF text = <<>> \/ Len(Strip(text)) < 10 THEN "auto"
     ELSE IF Len(words) < 5 THEN "auto"
     ELSE IF french_score > english_score THEN "fr"
     ELSE IF english_score > french_score THEN "en"
     ELSE "auto"

\* french_score > english_score * 1.5 is compared as 2 f > 3 e.
detect_language(text) ==
  LET words == Split(Strip(Lower(text)))
      french_score == IndicatorScore(words, utils_french_indicators)
      english_score == IndicatorScore(words, utils_english_indicators)
  IN IF text = <<>> \/ Len(Strip(text)) < 10 THEN "auto"
     ELSE IF Len(words) < 5 THEN "auto"
     ELSE IF 2 * french_score > 3 * english_score THEN "fr"
     ELSE IF english_score > french_score THEN "en"
     ELSE "auto"

\* Largest number of words in a text given to detect_language.
MaxWords == 6

\* "a" and "the" are English indicators, "Le" a French one once lower-cased,
\* "xyz" is neither.
DetectWords == { <<"a">>, <<"L","e">>, <<"t","h","e">>, <<"x","y","z">> }

\* ' '.join(words)
Join(words) ==
  LET joined[n \in 0..Len(words)] ==
        IF n = 0 THEN <<>>
        ELSE IF n = 1 THEN words[1]
        ELSE joined[n - 1] \o <<" ">> \o words[n]
  IN joined[Len(words)]

\* Texts of at most MaxWords words, bare or with surrounding whitespace.
DetectTexts ==
  LET bare == {Join(ws) : ws \in UNION {[1..k -> DetectWords] : k \in 0..MaxWords}}
  IN bare \cup {<<" ", " ">> \o t \o <<" ">> : t \in bare}

DetectInit == BenchInit("detect_language", DetectTexts)

DetectLanguage == BenchCall("detect_language", Value(detect_language(bench.input)))

DetectSpec == DetectInit /\ [][DetectLanguage]_vars

\* ------------------------------------------------------------------------
\* ner_service.merge_adjacent_entities and the sort of analyze_entities
\* ------------------------------------------------------------------------

\* The merge branch: the accumulator takes the next entity in.
\* Mutant: a merge keeps the confidence of the accumulator.
merge_into_keeps_confidence(current_entity, next_entity) ==
  [current_entity EXCEPT
     !.word = current_entity.word \o <<" ">> \o next_entity.word,
     !.end = next_entity.end]

merge_into(current_entity, next_entity) ==
  [current_entity EXCEPT
     !.word = current_entity.word \o <<" ">> \o next_entity.word,
     !.end = next_entity.end,
     !.confidence = (current_entity.confidence + next_entity.confidence) \div 2]

\* Same type and adjacent, allowing a small gap.
adjacent(current_entity, next_entity) ==
  /\ current_entity.entity_group = next_entity.entity_group
  /\ current_entity.end >= next_entity.start - 2

\* The body after the guard: entities[0] raises IndexError on an empty
\* list; otherwise the loop runs over entities[1:] and the last accumulator
\* is appended.
merge_loop(entities) ==
  LET loop[i \in 1..Len(entities)] ==
        IF i = 1 THEN [merged |-> <<>>, current_entity |-> entities[1]]
        ELSE LET before == loop[i - 1]
                 next_entity == entities[i]
             IN IF adjacent(before.current_entity, next_entity)
                THEN [merged |-> before.merged,
                      current_entity |->
                        merge_into(before.current_entity, next_entity)]
                ELSE [merged |-> Append(before.merged, before.current_entity),
                      current_entity |-> next_entity]
  IN IF Len(entities) = 0 THEN Raised("IndexError")
     ELSE Value(Append(loop[Len(entities)].merged,
                       loop[Len(entities)].current_entity))

\* Mutant: the guard for an empty list is missing.
merge_adjacent_entities_without_guard(entities) == merge_loop(entities)

merge_adjacent_entities(entities) ==
  IF entities = <<>> THEN Value(entities) ELSE merge_loop(entities)

\* Mutant: the accumulator is the input element itself, not a copy of it.
copy_shares_the_dict(i) == i

\* entities[i].copy(): the accumulator is a new dict; 0 says that it is none
\* of the elements of the input list (i would say it is the i-th one).
copy(i) == 0

\* The input list as the caller finds it after merge_adjacent_entities has
\* returned: the writes of a merge go to the accumulator, and reach an
\* element of the input list only if the accumulator is that element.
entities_after_merge(entities) ==
  LET loop[i \in 1..Len(entities)] ==
        IF i = 1
        THEN [entities |-> entities, current_entity |-> entities[1],
              shared |-> copy(1)]
        ELSE LET before == loop[i - 1]
                 next_entity == before.entities[i]
                 written == merge_into(before.current_entity, next_entity)
             IN IF adjacent(before.current_entity, next_entity)
                THEN [entities |->
                        IF before.shared = 0 THEN before.entities
                        ELSE [before.entities EXCEPT ![before.shared] = written],
                      current_entity |-> written,
                      shared |-> before.shared]
                ELSE [entities |-> before.entities,
                      current_entity |-> next_entity,
                      shared |-> copy(i)]
  IN IF entities = <<>> THEN entities ELSE loop[Len(entities)].entities

\* list.sort(key=lambda x: x['start']): stable, ascending by start.
sort_by_start(entities) ==
  LET rank(i) ==
        Cardinality({j \in 1..Len(entities) :
                       \/ entities[j].start < entities[i].start
                       \/ entities[j].start = entities[i].start /\ j <= i})
  IN [n \in 1..Len(entities) |->
        entities[CHOOSE i \in 1..Len(entities) : rank(i) = n]]

\* analyze_entities, from the merge to the sort: the list the service
\* delivers for the list the extractor produced.
merge_and_sort(entities) ==
  LET merged == merge_adjacent_entities(entities)
  IN IF merged.raised # "" THEN merged
     ELSE Value(sort_by_start(merged.value[1]))

\* Largest number of entities the extractor produces for one text.
MaxMergeLen == 3

\* Processed entities: "Paul" 0-4 and "Biya" 5-9 (PERSON), "Buea" 12-16
\* (LOCATION), "Fru" 18-21 and "Ndi" 22-25 (PERSON), "UN" 30-32
\* (ORGANIZATION); confidences 0.9 and 0.8.
MergeItems ==
  {[word |-> <<"P","a","u","l">>, entity_group |-> "PERSON",
    confidence |-> 9000, start |-> 0, end |-> 4],
   [word |-> <<"B","i","y","a">>, entity_group |-> "PERSON",
    confidence |-> 8000, start |-> 5, end |-> 9],
   [word |-> <<"B","u","e","a">>, entity_group |-> "LOCATION",
    confidence |-> 9000, start |-> 12, end |-> 16],
   [word |-> <<"F","r","u">>, entity_group |-> "PERSON",
    confidence |-> 8000, start |-> 18, end |-> 21],
   [word |-> <<"N","d","i">>, entity_group |-> "PERSON",
    confidence |-> 9000, start |-> 22, end |-> 25],
   [word |-> <<"U","N">>, entity_group |-> "ORGANIZATION",
    confidence |-> 8000, start |-> 30, end |-> 32]}

\* Lists of at most MaxMergeLen distinct entities, in any order.
MergeInputs ==
  {es \in UNION {[1..k -> MergeItems] : k \in 0..MaxMergeLen} :
     \A i, j \in 1..Len(es) : i # j => es[i] # es[j]}

MergeInit ==
  \/ BenchInit("merge_adjacent_entities", MergeInputs)
  \/ BenchInit("merge_and_sort", MergeInputs)
  \/ BenchInit("entities_after_merge", MergeInputs)

MergeAdjacent ==
  BenchCall("merge_adjacent_entities", merge_adjacent_entities(bench.input))

MergeAndSort == BenchCall("merge_and_sort", merge_and_sort(bench.input))

\* The delivered list is given to the merger once more; the second result
\* is kept after the first.
MergeAndSortAgain ==
  /\ bench # None
  /\ bench.fn = "merge_and_sort"
  /\ Len(bench.output) = 1
  /\ bench.output[1].raised = ""
  /\ bench' = [bench EXCEPT
                 !.output = Append(@, merge_and_sort(bench.output[1].value[1]))]
  /\ UNCHANGED <<requests, db, processing_logs, article, local, exc, pc,
                 calls, response, workload, reruns>>

\* merge_adjacent_entities is called and the caller looks at the list it
\* passed.
EntitiesAfterMerge ==
  BenchCall("entities_after_merge", Value(entities_after_merge(bench.input)))

MergeNext ==
  MergeAdjacent \/ MergeAndSort \/ MergeAndSortAgain \/ EntitiesAfterMerge

MergeSpec == MergeInit /\ [][MergeNext]_vars

\* ------------------------------------------------------------------------
\* utils.geocode_location under test
\* ------------------------------------------------------------------------

\* The name with its first letter in upper case.
Capitalized(s) ==
  LET upper(c) == IF \E u \in DOMAIN LowerCase : LowerCase[u] = c
                  THEN CHOOSE u \in DOMAIN LowerCase : LowerCase[u] = c
                  ELSE c
  IN IF s = <<>> THEN s ELSE <<upper(s[1])>> \o Tail(s)

\* The name with its diacritics removed.
Unaccented(s) ==
  [i \in 1..Len(s) |-> IF s[i] \in {"é", "ê"} THEN "e"
                        ELSE IF s[i] = "É" THEN "E" ELSE s[i]]

\* The name with an acute accent on every e.
Accented(s) == [i \in 1..Len(s) |-> IF s[i] = "e" THEN "é" ELSE s[i]]

\* Names given to geocode_location: every key of the table as written,
\* capitalized, without and with diacritics; "YAOUNDÉ", " Buea ",
\* "Port Douala", "Douala Yaoundé", "Atlantis", the empty name and a name
\* of two spaces.
GeocodeNames ==
  LET keys == {location_database[i].key : i \in 1..Len(location_database)}
  IN keys \cup {Capitalized(k) : k \in keys}
          \cup {Unaccented(k) : k \in keys}
          \cup {Accented(k) : k \in keys}
          \cup {<<"Y","A","O","U","N","D","É">>, <<" ","B","u","e","a"," ">>,
                 <<"P","o","r","t"," ","D","o","u","a","l","a">>,
                 <<"D","o","u","a","l","a"," ","Y","a","o","u","n","d","é">>,
                 <<"A","t","l","a","n","t","i","s">>, <<>>, <<" "," ">>}

GeocodeInit == BenchInit("geocode_location", GeocodeNames)

GeocodeLocation ==
  BenchCall("geocode_location", Value(geocode_location(bench.input)))

GeocodeSpec == GeocodeInit /\ [][GeocodeLocation]_vars

\* ------------------------------------------------------------------------
\* Properties
\* ------------------------------------------------------------------------

\* C1: every invocation of process_article_pipeline terminates, and when it
\* returns the persisted stage of the article is processed or failed, for
\* every translation outcome, extraction outcome and fault.
C1_RunEndsProcessedOrFailed ==
  /\ [](\A a \in Articles :
          Returned(a) => Stage(a) \in {"processed", "failed"})
  /\ \A a \in Articles : InPipeline(a) ~> ~InPipeline(a)

\* A run has returned after a fault that followed a received extraction.
C1_Witness ==
  \E a \in Articles :
    /\ Returned(a)
    /\ Stage(a) = "failed"
    /\ local[a].ner_result # None

\* C2: inside a pipeline run every change of the persisted stage is
\* pending->translating, translating->extracting_entities,
\* extracting_entities->processed, or X->failed for a non-terminal X.
StageTransitions ==
  {<<"pending", "translating">>,
   <<"translating", "extracting_entities">>,
   <<"extracting_entities", "processed">>,
   <<"pending", "failed">>,
   <<"translating", "failed">>,
   <<"extracting_entities", "failed">>}

C2_StageMovesForward ==
  [][\A a \in Articles :
       (InPipeline(a) /\ Stage(a)' # Stage(a))
         => <<Stage(a), Stage(a)'>> \in StageTransitions]_vars

\* A run went pending, translating, extracting_entities and then failed.
C2_Witness ==
  \E a \in Articles :
    /\ Returned(a)
    /\ Stage(a) = "failed"
    /\ CountLog(a, "ner_extraction", "started") = 1

\* C3: once the persisted stage is processed or failed, no later step of the
\* pipeline or of post (its exception handlers included) changes it.
C3_TerminalStagesNeverChange ==
  [][\A a \in Articles :
       (db[a] # None /\ Stage(a) \in {"processed", "failed"})
         => Stage(a)' = Stage(a)]_vars

\* C4: a non-English article, translation succeeded, extraction succeeded
\* and its first LOCATION entity matches the gazetteer of utils.py: the run
\* ends processed with results.translation, results.entities and the
\* location set to the gazetteer's coordinate.  Stated for the runs without
\* an orchestration fault only, which is all the refutation needs.
FirstLocation(a) ==
  location_entities_of(local[a].ner_result[1].entities)[1].word

C4_Case(a) ==
  /\ Returned(a)
  /\ exc[a] = None
  /\ local[a].detected_lang # "en"
  /\ local[a].translation_result # None
  /\ local[a].ner_result # None
  /\ location_entities_of(local[a].ner_result[1].entities) # <<>>
  /\ geocode_location(FirstLocation(a)) # None

C4_GazetteerLocationIsSet ==
  \A a \in Articles :
    C4_Case(a) =>
      /\ Stage(a) = "processed"
      /\ db[a][1].processed_json.translation # None
      /\ db[a][1].processed_json.entities # None
      /\ db[a][1].location = geocode_location(FirstLocation(a))

\* The translation request of the run was sent and came back None.
TranslationFailed(a) ==
  /\ Len(CallsOf(a, "translation")) > 0
  /\ pc[a] # "await_translation"
  /\ local[a].translation_result = None

\* The extraction request of the run was sent and came back None.
NerFailed(a) ==
  /\ Len(CallsOf(a, "ner")) > 0
  /\ pc[a] # "await_ner"
  /\ local[a].ner_result = None

\* C5: when the translation call fails no results.translation is stored,
\* the stage is failed only if an orchestration fault was raised, and a run
\* without such a fault returns with one translation/failed log entry, one
\* extraction request sent, and stage processed.
C5_TranslationFailureNotFatal ==
  \A a \in Articles :
    TranslationFailed(a) =>
      /\ local[a].results.translation = None
      /\ db[a][1].processed_json.translation = None
      /\ Stage(a) = "failed" => exc[a] # None
      /\ (Returned(a) /\ exc[a] = None) =>
           /\ CountLog(a, "translation", "failed") = 1
           /\ CountLog(a, "translation", "completed") = 0
           /\ Len(CallsOf(a, "ner")) = 1
           /\ Stage(a) = "processed"

\* A run whose translation failed has returned without a fault.
C5_Witness ==
  \E a \in Articles :
    /\ TranslationFailed(a)
    /\ Returned(a)
    /\ exc[a] = None
    /\ local[a].ner_result # None

\* C6: a run in which both calls fail and no orchestration fault occurs
\* returns with stage processed, one translation/failed and one
\* ner_extraction/failed log entry.
C6_DegradedRunIsProcessed ==
  \A a \in Articles :
    (Returned(a) /\ exc[a] = None /\ TranslationFailed(a) /\ NerFailed(a)) =>
      /\ Stage(a) = "processed"
      /\ CountLog(a, "translation", "failed") = 1
      /\ CountLog(a, "ner_extraction", "failed") = 1

\* Both calls failed and the run has returned without a fault.
C6_Witness ==
  \E a \in Articles :
    Returned(a) /\ exc[a] = None /\ TranslationFailed(a) /\ NerFailed(a)

\* C7: whenever a run returns with stage failed, the persisted results hold
\* an error entry with the message of the fault, whatever the results map
\* held at the moment of the fault.
C7_FailedRunStoresError ==
  \A a \in Articles :
    (Returned(a) /\ Stage(a) = "failed") =>
      /\ db[a][1].processed_json.error # None
      /\ db[a][1].processed_json.error = exc[a]

\* C8: when a fault is raised after the extraction request was sent and the
\* run returns failed, the persisted entity_count and location are those of
\* the new article and the persisted results have no entities entry.
C8_FailedRunHasNoEntities ==
  \A a \in Articles :
    (Returned(a) /\ Stage(a) = "failed" /\ Len(CallsOf(a, "ner")) > 0) =>
      /\ db[a][1].entity_count = NewArticle(<<>>).entity_count
      /\ db[a][1].location = NewArticle(<<>>).location
      /\ db[a][1].processed_json.entities = None

\* C9: the extraction service is called with the translated text when the
\* translation call succeeded, and with the raw text when it failed or was
\* skipped because the detected language is en; with no other text.
C9_NerTextIsTranslatedOrRaw ==
  \A a \in Articles :
    \A i \in 1..Len(CallsOf(a, "ner")) :
      /\ local[a].translation_result # None =>
           /\ CallsOf(a, "ner")[i] = local[a].translation_result[1].translated_text
           /\ local[a].detected_lang # "en"
      /\ local[a].translation_result = None =>
           /\ CallsOf(a, "ner")[i] = db[a][1].raw_text
           /\ (TranslationFailed(a) \/ local[a].detected_lang = "en")

\* The extraction request carried a translated text that differs from the
\* raw text.
C9_Witness ==
  \E a \in Articles :
    /\ CallsOf(a, "ner") = <<TextTranslated>>
    /\ db[a][1].raw_text # TextTranslated

\* C10: in one run the translation service is called at most once and the
\* extraction service at most once, also after a call has failed.
C10_AtMostOneCallEach ==
  \A a \in Articles :
    /\ Len(CallsOf(a, "translation")) <= 1
    /\ Len(CallsOf(a, "ner")) <= 1

\* Both calls were made once, both failed, and the run went on to return.
C10_Witness ==
  \E a \in Articles :
    /\ Returned(a)
    /\ TranslationFailed(a)
    /\ NerFailed(a)
    /\ Len(CallsOf(a, "translation")) = 1
    /\ Len(CallsOf(a, "ner")) = 1

\* The run is past Step 2 and no fault has interrupted it.
AfterTranslationStep(a) ==
  pc[a] \in {"begin_ner", "log_ner_started", "call_ner", "await_ner",
             "ner_result", "geocode", "finalize"}

\* C11: when the detected language of the raw text is en, no translation
\* request is sent, and the run stores under results.translation a record
\* whose translated text is the raw text and whose processing time is 0; a
\* run that ends processed has persisted that record.
C11_EnglishSkipsTranslation ==
  \A a \in Articles :
    (db[a] # None /\ local[a].detected_lang = "en") =>
      LET skipped == <<[translated_text |-> db[a][1].raw_text,
                        detected_language |-> "en", processing_time |-> 0]>>
      IN /\ CallsOf(a, "translation") = <<>>
         /\ CountLog(a, "translation", "completed") = 0
         /\ AfterTranslationStep(a) => local[a].results.translation = skipped
         /\ Stage(a) = "processed" =>
              db[a][1].processed_json.translation = skipped

\* An English article was processed and its extraction request was sent.
C11_Witness ==
  \E a \in Articles :
    /\ Returned(a)
    /\ local[a].detected_lang = "en"
    /\ Stage(a) = "processed"
    /\ db[a][1].processed_json.translation # None
    /\ Len(CallsOf(a, "ner")) = 1

\* C12: when a run ends processed, the persisted priority of the article is
\* what classify_article_priority returns for the stored translated text
\* (the raw text when none is stored) and the stored entity list.
StoredArticleData(a) ==
  LET stored == db[a][1].processed_json
  IN [translated_text |->
        IF stored.translation # None
        THEN stored.translation[1].translated_text ELSE <<>>,
      raw_text |-> db[a][1].raw_text,
      entities |->
        IF stored.entities # None THEN stored.entities[1].entities ELSE <<>>]

C12_PriorityIsClassified ==
  \A a \in Articles :
    (Returned(a) /\ Stage(a) = "processed") =>
      LET classified == classify_article_priority(StoredArticleData(a))
      IN /\ classified.raised = ""
         /\ db[a][1].priority = classified.value[1]

\* C13: across every sequence of pipeline steps on one article, a re-run of
\* a failed or processed article included, the key set of the persisted
\* results never loses a key.
C13_ResultKeysNeverRemoved ==
  [][\A a \in Articles :
       (db[a] # None /\ db'[a] # None) =>
         Keys(db[a][1].processed_json) \subseteq Keys(db'[a][1].processed_json)]_vars

IsPrefix(s, t) == Len(s) <= Len(t) /\ SubSeq(t, 1, Len(s)) = s

\* C14: the processing log is append-only: at every step the table, and
\* the log of each article, as it was before the step is a prefix of what
\* it is after the step.
C14_LogIsAppendOnly ==
  [][/\ IsPrefix(processing_logs, processing_logs')
     /\ \A a \in Articles : IsPrefix(LogOf(a), LogOf(a)')]_vars

\* A run logged translation, extraction and geocoding, and the article was
\* then processed again and logged more.
C14_Witness ==
  \E a \in Articles :
    /\ CountLog(a, "geocoding", "completed") >= 1
    /\ CountLog(a, "translation", "started") = 2
    /\ CountLog(a, "ner_extraction", "failed") >= 1

\* What one request can read or write: its row, its instance, its locals,
\* its log entries, its service calls, its response.
ArticleView(a) ==
  <<db[a], article[a], local[a], exc[a], pc[a], response[a], reruns[a],
    LogOf(a), CallsOf(a, "translation"), CallsOf(a, "ner")>>

\* C15: two different articles processed concurrently: no step of one run
\* changes anything of the other, and in every interleaving a request that
\* ends without a fault leaves the stage, language, results, entity count,
\* location and log entries that the run leaves when it is alone and the
\* services give the same answers.
C15_ConcurrentRunsAreIsolated ==
  /\ [][\A a, b \in Articles :
          (a # b /\ pc[a]' # pc[a]) => ArticleView(b)' = ArticleView(b)]_vars
  /\ [](\A a \in Articles :
          (pc[a] = "done" /\ db[a] # None /\ exc[a] = None) =>
            LET solo == SoloRun(db[a][1].raw_text, local[a].translation_result,
                                local[a].ner_result)
            IN /\ db[a][1] = solo.row
               /\ LogOf(a) = solo.log
               /\ CallsOf(a, "ner") = <<solo.text_for_ner>>)

\* Both requests ended processed with a location, and a log entry of one
\* lies between two log entries of the other.
C15_Witness ==
  /\ \A a \in Articles :
       pc[a] = "done" /\ exc[a] = None /\ db[a] # None
       /\ Stage(a) = "processed" /\ db[a][1].location # None
  /\ \E i, j, k \in 1..Len(processing_logs) :
       /\ i < j /\ j < k
       /\ processing_logs[i].article = processing_logs[k].article
       /\ processing_logs[j].article # processing_logs[i].article

\* The call of the function under test has returned or raised.
Called(fn) == bench # None /\ bench.fn = fn /\ bench.output # None

\* C16: classify_article_priority is total: for every text and entity list
\* it returns one of 1, 2, 3, 4 and never raises.
C16_PriorityIsTotal ==
  Called("classify_article_priority") =>
    /\ bench.output[1].raised = ""
    /\ bench.output[1].value[1] \in {1, 2, 3, 4}

\* The rule order of the claim: criticalCount and highCount are the numbers
\* of critical and high keywords present in the lower-cased text.
PriorityRule(article_data) ==
  LET text == Lower(IF article_data.translated_text # <<>>
                    THEN article_data.translated_text
                    ELSE article_data.raw_text)
      criticalCount == CountPresent(critical_keywords, text)
      highCount == CountPresent(high_priority_keywords, text)
      persons == Len(SelectSeq(article_data.entities,
                               LAMBDA e : e.entity_group = "PERSON"))
      organizations == Len(SelectSeq(article_data.entities,
                                     LAMBDA e : e.entity_group = "ORGANIZATION"))
  IN IF \/ criticalCount >= 2
        \/ Contains(text, <<"b","o","k","o"," ","h","a","r","a","m">>)
        \/ Contains(text, <<"t","e","r","r","o","r","i","s","t">>) THEN 1
     ELSE IF criticalCount >= 1 \/ highCount >= 3 THEN 2
     ELSE IF highCount >= 1 \/ persons >= 3 \/ organizations >= 2 THEN 3
     ELSE 4

\* C17: classify_article_priority returns 1 if criticalCount >= 2 or the
\* text contains "boko haram" or "terrorist"; else 2 if criticalCount >= 1
\* or highCount >= 3; else 3 if highCount >= 1, or at least 3 PERSON or at
\* least 2 ORGANIZATION entities; else 4.
C17_PriorityFollowsRuleOrder ==
  Called("classify_article_priority") =>
    bench.output[1] = Value(PriorityRule(bench.input))

\* C18: utils.detect_language returns auto for every text that has fewer
\* than 10 characters or fewer than 5 whitespace-separated words.
C18_ShortTextIsAuto ==
  Called("detect_language") =>
    ((Len(bench.input) < 10 \/ Len(Split(bench.input)) < 5)
       => bench.output[1] = Value("auto"))

\* A text of 10 or more characters and fewer than 5 words, more of them
\* English than French, was given and auto came back.
C18_Witness ==
  /\ Called("detect_language")
  /\ Len(Strip(bench.input)) >= 10
  /\ Len(Split(bench.input)) = 4
  /\ \A i \in 1..4 : Split(bench.input)[i] = <<"t","h","e">>
  /\ bench.output[1] = Value("auto")

\* C19: the Entity Merger (merge, then sort by start) is idempotent on its
\* own output: for every input list, in any order, applying it to the list
\* it returned yields that same list.
C19_MergerIsIdempotent ==
  (bench # None /\ bench.fn = "merge_and_sort" /\ Len(bench.output) = 2) =>
    bench.output[2] = bench.output[1]

\* C20: merge_adjacent_entities applied to an empty list returns an empty
\* list and raises no error.
C20_MergeOfEmptyIsEmpty ==
  (Called("merge_adjacent_entities") /\ bench.input = <<>>) =>
    bench.output[1] = Value(<<>>)

\* merge_adjacent_entities was called on the empty list.
C20_Witness ==
  /\ Called("merge_adjacent_entities")
  /\ bench.input = <<>>
  /\ bench.output[1].raised = ""

\* Two names that differ only in letter case or in diacritics fold to the
\* same string.
Fold(s) == Unaccented(Lower(s))

\* C21: the gazetteer is case-insensitive and diacritic-insensitive: a name
\* that differs from a table entry only in letter case or in diacritics
\* resolves to the coordinate of that entry.
C21_LookupIgnoresCaseAndDiacritics ==
  Called("geocode_location") =>
    \A i \in 1..Len(location_database) :
      Fold(bench.input) = Fold(location_database[i].key) =>
        bench.output[1] = Value(location_database[i].coords)

\* The extraction of the run succeeded and returned a LOCATION entity.
HasLocationEntity(a) ==
  /\ local[a].ner_result # None
  /\ location_entities_of(local[a].ner_result[1].entities) # <<>>

\* What the view's table holds for the first LOCATION entity of the run.
FirstLocationInViewTable(a) ==
  Lookup(cameroon_locations, Strip(Lower(FirstLocation(a))))

\* C22: when the first LOCATION entity of a successful extraction is not
\* resolved, the run writes no geocoding entry, leaves the location empty
\* and, without a fault, ends processed; a geocoding/completed entry exists
\* only when the run set the location from the resolved coordinate.
C22_UnresolvedLocationIsSkipped ==
  \A a \in Articles :
    db[a] # None =>
      /\ (HasLocationEntity(a) /\ FirstLocationInViewTable(a) = None) =>
           /\ CountLog(a, "geocoding", "completed") = 0
           /\ article[a][1].location = None
           /\ db[a][1].location = None
           /\ (Returned(a) /\ exc[a] = None) => Stage(a) = "processed"
      /\ CountLog(a, "geocoding", "completed") > 0 =>
           /\ HasLocationEntity(a)
           /\ FirstLocationInViewTable(a) # None
           /\ (InPipeline(a) \/ Returned(a)) =>
                article[a][1].location = FirstLocationInViewTable(a)
           /\ Stage(a) = "processed" =>
                db[a][1].location = FirstLocationInViewTable(a)

\* A run whose first LOCATION entity is in no table has ended processed.
C22_Witness ==
  \E a \in Articles :
    /\ Returned(a)
    /\ exc[a] = None
    /\ HasLocationEntity(a)
    /\ FirstLocationInViewTable(a) = None
    /\ Len(local[a].ner_result[1].entities) = 2
    /\ Stage(a) = "processed"

\* C23: after an orchestration fault is raised inside a run, the run sends
\* no further request to a service and appends no further log entry; the
\* only change it makes is to persist stage failed together with the
\* message of the fault.
C23_FaultStopsTheRun ==
  [][\A a \in Articles :
       pc[a] = "except" =>
         /\ calls' = calls
         /\ processing_logs' = processing_logs
         /\ pc'[a] = "returned" =>
              db'[a][1] = [db[a][1] EXCEPT !.processing_status = "failed",
                                           !.processed_json.error = exc[a]]]_vars

\* C24: within a run no extraction request is sent while the translation
\* request is outstanding: when the extraction request is sent, the
\* translation request has come back, with a result or with a failure, or
\* was never sent because the text is English.
C24_ExtractionWaitsForTranslation ==
  \A a \in Articles :
    /\ pc[a] = "await_translation" => Len(CallsOf(a, "ner")) = 0
    /\ Len(CallsOf(a, "ner")) > 0 =>
         \/ /\ local[a].detected_lang = "en"
            /\ Len(CallsOf(a, "translation")) = 0
         \/ /\ local[a].detected_lang # "en"
            /\ Len(CallsOf(a, "translation")) = 1
            /\ CountLog(a, "translation", "completed")
                 + CountLog(a, "translation", "failed") = 1

\* The extraction request was sent after the translation had come back.
C24_Witness ==
  \E a \in Articles :
    /\ pc[a] = "await_ner"
    /\ Len(CallsOf(a, "translation")) = 1
    /\ local[a].translation_result # None

\* The logs of a complete run: translation/started, at most one of
\* translation/completed and translation/failed, ner_extraction/started,
\* one of ner_extraction/completed and ner_extraction/failed, and after
\* ner_extraction/completed at most one geocoding/completed.
CompleteRunLogs ==
  {<< <<"translation", "started">> >> \o t
     \o << <<"ner_extraction", "started">> >> \o n :
     t \in {<<>>, << <<"translation", "completed">> >>,
              << <<"translation", "failed">> >>},
     n \in {<< <<"ner_extraction", "failed">> >>,
              << <<"ner_extraction", "completed">> >>,
              << <<"ner_extraction", "completed">>,
                 <<"geocoding", "completed">> >>}}

\* The log of a has just gained the entry <<operation, status>>.
Logged(a, operation, status) ==
  /\ Len(LogOf(a)') = Len(LogOf(a)) + 1
  /\ LogOf(a)'[Len(LogOf(a)')] = <<operation, status>>

\* C25: the log entries of one run appear in the order of CompleteRunLogs:
\* at every moment the log is the beginning of such a sequence, and it is
\* a whole one when the run returns without a fault; translation/started
\* is written when stage translating is persisted and
\* ner_extraction/started when stage extracting_entities is persisted.
C25_LogEntriesAreOrdered ==
  /\ [](\A a \in Articles :
          /\ \E whole \in CompleteRunLogs : IsPrefix(LogOf(a), whole)
          /\ (Returned(a) /\ exc[a] = None) => LogOf(a) \in CompleteRunLogs)
  /\ [][\A a \in Articles :
          /\ Logged(a, "translation", "started") => Stage(a) = "translating"
          /\ Logged(a, "ner_extraction", "started") =>
               Stage(a) = "extracting_entities"]_vars

\* A run wrote all five kinds of entry it can write and returned.
C25_Witness ==
  \E a \in Articles :
    /\ Returned(a)
    /\ exc[a] = None
    /\ Len(LogOf(a)) = 5

\* C26: the language the pipeline stores on the article in the
\* pending->translating step is, for every raw text, what
\* utils.detect_language returns for that raw text.
C26_StoredLanguageIsDetectLanguage ==
  \A a \in Articles :
    (db[a] # None /\ Stage(a) # "pending" /\ db[a][1].language # "unknown") =>
      db[a][1].language = detect_language(db[a][1].raw_text)

\* C27: the coordinate the pipeline resolves for the first LOCATION entity
\* is, for every location name, what utils.geocode_location returns for
\* that name.
C27_ResolvedCoordinateIsGeocodeLocation ==
  \A a \in Articles :
    (pc[a] = "finalize" /\ HasLocationEntity(a)) =>
      article[a][1].location = geocode_location(FirstLocation(a))

\* ------------------------------------------------------------------------
\* C28: geocoding only fills an empty location, from the first LOCATION

\* The article's geocoding step is taken.
GeocodeStep(a) == pc[a] = "geocode" /\ pc'[a] # "geocode"

\* C28: when the article already has a location at the geocoding step, the
\* step leaves the article and the log as they are; otherwise the location
\* after the step is what the view's table holds for the first LOCATION
\* entity, empty when that one is unresolved whatever the later ones are.
C28_GeocodingFillsEmptyLocationFromFirst ==
  [][\A a \in Articles :
       GeocodeStep(a) =>
         /\ article[a][1].location # None =>
              /\ article'[a] = article[a]
              /\ processing_logs' = processing_logs
         /\ (article[a][1].location = None /\ HasLocationEntity(a)) =>
              article'[a][1].location = FirstLocationInViewTable(a)
         /\ ~HasLocationEntity(a) => article'[a] = article[a]]_vars

\* A second run extracted "Douala" for an article the first run had placed
\* elsewhere, and has passed its geocoding step.
C28_Witness ==
  \E a \in Articles :
    /\ reruns[a] = 1
    /\ pc[a] = "finalize"
    /\ HasLocationEntity(a)
    /\ FirstLocation(a) = Douala.word
    /\ article[a][1].location # None
    /\ article[a][1].location # FirstLocationInViewTable(a)
    /\ CountLog(a, "geocoding", "completed") = 1

\* ------------------------------------------------------------------------
\* C29: a failed extraction call

\* The run of the article has returned without a fault and its extraction
\* call had failed.
ReturnedAfterNerFailed(a) ==
  /\ pc[a] = "returned"
  /\ exc[a] = None
  /\ local[a].ner_result = None

\* C29: a run whose extraction call failed and that met no fault ends in
\* stage processed with ner_extraction/failed as its last log entry and no
\* entities in the stored results; and no step of a run that has no
\* extraction result changes the stored entity count or location.
C29_FailedExtractionKeepsCountAndLocation ==
  /\ [](\A a \in Articles :
          ReturnedAfterNerFailed(a) =>
            /\ Stage(a) = "processed"
            /\ db[a][1].processed_json.entities = None
            /\ local[a].ret[1].entities = None
            /\ LogOf(a)[Len(LogOf(a))] = <<"ner_extraction", "failed">>)
  /\ [][\A a \in Articles :
          (db[a] # None /\ InPipeline(a) /\ local'[a].ner_result = None) =>
            /\ db'[a][1].entity_count = db[a][1].entity_count
            /\ db'[a][1].location = db[a][1].location
            /\ article'[a][1].entity_count = article[a][1].entity_count
            /\ article'[a][1].location = article[a][1].location]_vars

\* The extraction call of a second run failed, for an article whose first
\* run had stored one entity and a location.
C29_Witness ==
  \E a \in Articles :
    /\ reruns[a] = 1
    /\ ReturnedAfterNerFailed(a)
    /\ Stage(a) = "processed"
    /\ db[a][1].entity_count = 1
    /\ db[a][1].location # None
    /\ CountLog(a, "ner_extraction", "failed") = 1
    /\ CountLog(a, "ner_extraction", "completed") = 1

\* ------------------------------------------------------------------------
\* C30: the persisted stage while a service call is outstanding

\* C30: while a run awaits the answer of the translation service the
\* persisted stage of its article is translating, and while it awaits the
\* answer of the extraction service it is extracting_entities.
C30_StageWhileAwaiting ==
  \A a \in Articles :
    /\ pc[a] = "await_translation" => Stage(a) = "translating"
    /\ pc[a] = "await_ner" => Stage(a) = "extracting_entities"

\* A run that had awaited its translation now awaits its extraction.
C30_Witness ==
  \E a \in Articles :
    /\ pc[a] = "await_ner"
    /\ Len(CallsOf(a, "translation")) = 1
    /\ Len(CallsOf(a, "ner")) = 1
    /\ Stage(a) = "extracting_entities"

\* ------------------------------------------------------------------------
\* C31: the decision rule of utils.detect_language

\* The number of whitespace tokens of the text that are in one of the lists.
TokensIn(text, categories) ==
  LET words == Split(Lower(text))
  IN Cardinality({i \in 1..Len(words) :
                    \E c \in 1..Len(categories) : InList(words[i], categories[c])})

frenchScore(text) == TokensIn(text, utils_french_indicators)

englishScore(text) == TokensIn(text, utils_english_indicators)

\* fr exactly when f > 1.5 e, en exactly when not so and e > f, else auto.
DecisionRule(f, e) ==
  IF 2 * f > 3 * e THEN "fr" ELSE IF e > f THEN "en" ELSE "auto"

\* C31 as stated: for every text of at least 10 characters and 5 words,
\* detect_language returns what the decision rule gives for its scores.
C31_Original ==
  Called("detect_language") =>
    ((Len(bench.input) >= 10 /\ Len(Split(bench.input)) >= 5) =>
       bench.output[1] =
         Value(DecisionRule(frenchScore(bench.input), englishScore(bench.input))))

\* C31: for every text of at least 5 words whose length without the
\* surrounding whitespace is at least 10 characters, detect_language returns
\* fr exactly when f > 1.5 e, en exactly when not so and e > f, and auto
\* otherwise.
C31_DecisionRule ==
  Called("detect_language") =>
    ((Len(Strip(bench.input)) >= 10 /\ Len(Split(bench.input)) >= 5) =>
       bench.output[1] =
         Value(DecisionRule(frenchScore(bench.input), englishScore(bench.input))))

\* A text with three French and two English indicator words came back auto.
C31_Witness ==
  /\ Called("detect_language")
  /\ Len(Strip(bench.input)) >= 10
  /\ frenchScore(bench.input) = 3
  /\ englishScore(bench.input) = 2
  /\ bench.output[1] = Value("auto")

\* ------------------------------------------------------------------------
\* C32: the merge rule of merge_adjacent_entities

\* The next entity is merged into the accumulator.
Merges(acc, next) ==
  acc.entity_group = next.entity_group /\ acc.end >= next.start - 2

\* What a merge yields: start and category of the accumulator, the words
\* joined by one space, the end of the next entity, the mean confidence
\* (confidences are in units of 1/10000, so twice the mean is the sum).
MergeYields(acc, next, out) ==
  /\ out.start = acc.start
  /\ out.entity_group = acc.entity_group
  /\ out.word = acc.word \o <<" ">> \o next.word
  /\ out.end = next.end
  /\ 2 * out.confidence = acc.confidence + next.confidence

RECURSIVE PassFrom(_, _, _)
\* out is what the left-to-right pass returns from accumulator acc over rest.
PassFrom(acc, rest, out) ==
  IF rest = <<>> THEN out = <<acc>>
  ELSE IF Merges(acc, Head(rest))
       THEN \E merged \in {[acc EXCEPT
                              !.word = acc.word \o <<" ">> \o Head(rest).word,
                              !.end = Head(rest).end,
                              !.confidence = c] :
                             c \in {x \in 0..10000 :
                                      2 * x = acc.confidence + Head(rest).confidence}} :
              /\ MergeYields(acc, Head(rest), merged)
              /\ PassFrom(merged, Tail(rest), out)
       ELSE /\ out # <<>>
            /\ Head(out) = acc
            /\ PassFrom(Head(rest), Tail(rest), Tail(out))

\* C32: merge_adjacent_entities returns what the single left-to-right pass
\* gives: the next entity is merged exactly when its category equals the
\* accumulator's and accumulator.end >= next.start - 2, a merge yields the
\* accumulator's start and category, the words joined by a space, the next
\* entity's end and the mean confidence; otherwise the accumulator is
\* flushed and the next entity starts a new one.
C32_MergeRule ==
  (Called("merge_adjacent_entities") /\ bench.input # <<>>) =>
    /\ bench.output[1].raised = ""
    /\ PassFrom(Head(bench.input), Tail(bench.input), bench.output[1].value[1])

\* PERSON Paul 0-4 (0.9) and PERSON Biya 5-9 (0.8) were given and PERSON
\* "Paul Biya" 0-9 (0.85) came back.
C32_Witness ==
  /\ Called("merge_adjacent_entities")
  /\ Len(bench.input) = 2
  /\ bench.input[1].word = <<"P","a","u","l">>
  /\ bench.input[2].word = <<"B","i","y","a">>
  /\ bench.output[1] =
       Value(<<[word |-> <<"P","a","u","l"," ","B","i","y","a">>,
                entity_group |-> "PERSON", confidence |-> 8500,
                start |-> 0, end |-> 9]>>)

\* ------------------------------------------------------------------------
\* C33: the order of the returned list

\* Ascending by start.
OrderedByStart(entities) ==
  \A i, j \in 1..Len(entities) : i < j => entities[i].start <= entities[j].start

\* The delivered list holds the merged entities, those of equal start in
\* their merge order.
StableOrderOf(merged, delivered) ==
  /\ Len(delivered) = Len(merged)
  /\ \E p \in [1..Len(merged) -> 1..Len(merged)] :
       /\ \A i, j \in 1..Len(merged) : i # j => p[i] # p[j]
       /\ \A i \in 1..Len(merged) : delivered[p[i]] = merged[i]
       /\ \A i, j \in 1..Len(merged) :
            (i < j /\ merged[i].start = merged[j].start) => p[i] < p[j]

\* C33: for every input order, the list merge_adjacent_entities returns and
\* the list analyze_entities delivers are ordered by start ascending, with
\* entities of equal start in their merge order.
C33_ReturnedListIsOrdered ==
  /\ (Called("merge_adjacent_entities") /\ bench.output[1].raised = "") =>
       OrderedByStart(bench.output[1].value[1])
  /\ (Called("merge_and_sort") /\ bench.output[1].raised = "") =>
       /\ OrderedByStart(bench.output[1].value[1])
       /\ StableOrderOf(merge_adjacent_entities(bench.input).value[1],
                        bench.output[1].value[1])

\* ------------------------------------------------------------------------
\* C34: the lookup rule of utils.geocode_location

\* The lower-cased, trimmed name.
NameKey(name) == Strip(Lower(name))

\* The table positions whose key equals the name's key.
ExactMatches(name) ==
  {i \in 1..Len(location_database) : location_database[i].key = NameKey(name)}

\* The table positions whose key contains the name's key or is contained
\* in it.
PartialMatches(name) ==
  {i \in 1..Len(location_database) :
     \/ Contains(NameKey(name), location_database[i].key)
     \/ Contains(location_database[i].key, NameKey(name))}

\* C34: geocode_location returns, without raising, the coordinate of the
\* key equal to the lower-cased, trimmed name if there is one; otherwise
\* the coordinate of the first key in table order that contains the name
\* or is contained in it; otherwise None.
C34_ExactThenFirstPartialThenNone ==
  Called("geocode_location") =>
    /\ bench.output[1].raised = ""
    /\ \A i \in ExactMatches(bench.input) :
         bench.output[1].value = <<location_database[i].coords>>
    /\ (ExactMatches(bench.input) = {} /\ PartialMatches(bench.input) # {}) =>
         \E i \in PartialMatches(bench.input) :
           /\ \A j \in PartialMatches(bench.input) : i <= j
           /\ bench.output[1].value = <<location_database[i].coords>>
    /\ PartialMatches(bench.input) = {} => bench.output[1].value = <<None>>

\* A name that is no key and matches several keys with different
\* coordinates partially resolved to the first of them.
C34_Witness ==
  /\ Called("geocode_location")
  /\ NameKey(bench.input) # <<>>
  /\ ExactMatches(bench.input) = {}
  /\ \E i, j \in PartialMatches(bench.input) :
       /\ i < j
       /\ \A k \in PartialMatches(bench.input) : i <= k
       /\ location_database[i].coords # location_database[j].coords
       /\ bench.output[1] = Value(location_database[i].coords)

\* ------------------------------------------------------------------------
\* C35: offsets of merged entities

\* C35: every entity merge_adjacent_entities returns satisfies start <= end
\* when every input entity does, whatever the order of the input.
C35_MergedOffsetsAreOrdered ==
  (/\ Called("merge_adjacent_entities")
   /\ bench.output[1].raised = ""
   /\ \A i \in 1..Len(bench.input) : bench.input[i].start <= bench.input[i].end)
    => \A i \in 1..Len(bench.output[1].value[1]) :
         bench.output[1].value[1][i].start <= bench.output[1].value[1][i].end

\* ------------------------------------------------------------------------
\* C38: the empty name

\* C38: geocode_location returns None for a name whose lower-cased, trimmed
\* form is empty.
C38_EmptyNameIsNotFound ==
  (Called("geocode_location") /\ NameKey(bench.input) = <<>>) =>
    bench.output[1] = Value(None)

\* ------------------------------------------------------------------------
\* C36: what post reports

\* C36: post answers with success (201, success = true) only if the
\* persisted stage of the article after the run is processed.
C36_SuccessOnlyIfProcessed ==
  \A a \in Articles :
    (response[a] # None /\ response[a][1].success) =>
      /\ response[a][1].status = 201
      /\ db[a] # None
      /\ Stage(a) = "processed"

\* ------------------------------------------------------------------------
\* C37: started entries are closed

\* Entry i of the article's log is followed by a completed or failed entry
\* of the same operation.
Closed(a, i) ==
  \E j \in (i + 1)..Len(LogOf(a)) :
    /\ LogOf(a)[j][1] = LogOf(a)[i][1]
    /\ LogOf(a)[j][2] \in {"completed", "failed"}

\* C37: when the run has ended with stage processed, every translation/
\* started and every ner_extraction/started entry of the article's log is
\* followed by a completed or failed entry of the same operation.
C37_StartedEntriesAreClosed ==
  \A a \in Articles :
    (db[a] # None /\ Stage(a) = "processed") =>
      \A i \in 1..Len(LogOf(a)) :
        (/\ LogOf(a)[i][1] \in {"translation", "ner_extraction"}
         /\ LogOf(a)[i][2] = "started") => Closed(a, i)

\* ------------------------------------------------------------------------
\* C39: the merge keeps the text and leaves its input alone

\* The words of the entities, in list order.
WordsOf(entities) == [i \in 1..Len(entities) |-> entities[i].word]

\* C39: the words of the entities merge_adjacent_entities returns, joined in
\* list order by single spaces, are the words of the input entities joined
\* in input order by single spaces; and after the call the input list and
\* its elements are as they were.
C39_MergeKeepsTextAndInput ==
  /\ (Called("merge_adjacent_entities") /\ bench.output[1].raised = "") =>
       Join(WordsOf(bench.output[1].value[1])) = Join(WordsOf(bench.input))
  /\ Called("entities_after_merge") => bench.output[1] = Value(bench.input)

\* "Paul", "Biya" and "Buea" were given, "Paul Biya" and "Buea" came back.
C39_Witness ==
  /\ Called("merge_adjacent_entities")
  /\ Len(bench.input) = 3
  /\ Len(bench.output[1].value[1]) = 2
  /\ Join(WordsOf(bench.output[1].value[1])) =
       <<"P","a","u","l"," ","B","i","y","a"," ","B","u","e","a">>

====
